---- MODULE Spec2Model ----
(***************************************************************************)
(* Model of the profiling tables of the sentry front end:                  *)
(*   static/app/views/profiling/profileDetails/components/                 *)
(*       profileDetailsTable.tsx   (ProfileDetailsTable, the view          *)
(*                                  pipeline: transform, search, column    *)
(*                                  filter, sort, page slice)              *)
(*   static/app/components/profiling/profileTransactionsTable.tsx          *)
(*                                 (ProfileTransactionsTable, sort         *)
(*                                  parameter and sort links)              *)
(* JavaScript strings that the code parses (cursor, sort parameter, search *)
(* text) are sequences of one-character strings; "undefined" and "NaN" are *)
(* the JavaScript values of these names.                                   *)
(***************************************************************************)
EXTENDS Integers, Sequences, FiniteSets, TLC

VARIABLES
    state,                 \* useProfileGroup(): the profile group state
    groupByViewKey,        \* querystring detailView
    searchQuery,           \* querystring query
    paginationCursor,      \* querystring cursor
    filteredDataBySearch,  \* useState: rows that passed the search stage
    filters,               \* useColumnFilters: active selection per column
    functionsSort,         \* querystring functionsSort
    timers,                \* pending lodash debounce timers, earliest first
    lastApplied,           \* history: what the last setFilteredDataBySearch applied
    crashed,               \* a render threw
    sortParam,             \* transactions table: props.sort
    sortRequest,           \* transactions table: history of the last sort link used
    sortedLen,             \* pager: number of rows of sortedData
    frameCount,            \* occurrence view: number of collected frame records
    pass,                  \* one render pass: the arrays behind the stage names
    sample,                \* aggregate: the self weights of one group, in row order
    level,                 \* aggregate: the q handed to quantile, in hundredths
    estimate               \* aggregate: what the columns computed for the group

vars == <<state, groupByViewKey, searchQuery, paginationCursor,
          filteredDataBySearch, filters, functionsSort, timers, lastApplied,
          crashed, sortParam, sortRequest, sortedLen, frameCount, pass,
          sample, level, estimate>>

detailsVars == <<state, groupByViewKey, searchQuery, paginationCursor,
                 filteredDataBySearch, filters, functionsSort, timers,
                 lastApplied, crashed>>

transactionsVars == <<sortParam, sortRequest>>

aggregateVars == <<sample, level, estimate>>

restVars == <<frameCount, pass, aggregateVars>>

\* the values of the variables of a component that is not running
NoPass == [stage |-> "idle"]

NoEstimate == [done |-> FALSE]

FramesIdle == frameCount = 0

PassIdle == pass = NoPass

AggregateIdle == sample = <<>> /\ level = 0 /\ estimate = NoEstimate

RestIdle == FramesIdle /\ PassIdle /\ AggregateIdle

----------------------------------------------------------------------------
(* Bounds of the model *)

MaxPending == 2
MaxRows == 120
MaxFrames == 503
MaxGroup == 4

----------------------------------------------------------------------------
(* JavaScript values and helpers *)

Range(s) == {s[i] : i \in 1..Len(s)}

Digits == <<"0", "1", "2", "3", "4", "5", "6", "7", "8", "9">>

IsDigit(c) == c \in Range(Digits)

DigitValue(c) == (CHOOSE i \in 1..10 : Digits[i] = c) - 1

RECURSIVE DigitPrefix(_, _)
\* value of the longest prefix of digits of s, continuing from acc
DigitPrefix(s, acc) ==
    IF s = <<>> \/ ~IsDigit(Head(s)) THEN acc
    ELSE DigitPrefix(Tail(s), 10 * acc + DigitValue(Head(s)))

NaN == [isNaN |-> TRUE, value |-> 0]

Number(n) == [isNaN |-> FALSE, value |-> n]

\* parseInt(s, 10): optional sign, then the longest prefix of decimal
\* digits; NaN when no digit follows the sign.
ParseInt(s) ==
    LET neg == s # <<>> /\ Head(s) = "-"
        body == IF s # <<>> /\ Head(s) \in {"-", "+"} THEN Tail(s) ELSE s
    IN  IF body = <<>> \/ ~IsDigit(Head(body)) THEN NaN
        ELSE IF neg THEN Number(0 - DigitPrefix(body, 0))
        ELSE Number(DigitPrefix(body, 0))

\* the string an undefined value is converted to when it is parsed
Undefined == <<"undefined">>

\* Array.prototype.slice(start, end) on an array of length len: the index
\* interval it copies, after resolving negative and out-of-range indices.
SliceFrom(len, start) ==
    IF start < 0 THEN (IF len + start < 0 THEN 0 ELSE len + start)
    ELSE IF start > len THEN len ELSE start

Slice(arr, start, end) ==
    LET from == SliceFrom(Len(arr), start)
        to   == SliceFrom(Len(arr), end)
    IN  IF to <= from THEN <<>> ELSE SubSeq(arr, from + 1, to)

\* String.prototype.includes on character sequences
IsSubstring(q, s) ==
    \E i \in 1..(Len(s) - Len(q) + 1) : SubSeq(s, i, i + Len(q) - 1) = q

----------------------------------------------------------------------------
(* Profile data: each profile is the sequence of frames collected from it *)

Frame(symbol, image, file, thread, type, self, total) ==
    [symbol |-> symbol, image |-> image, file |-> file, thread |-> thread,
     type |-> type] @@ ("self weight" :> self) @@ ("total weight" :> total)

ProfileGroupA ==
    << << Frame(<<"a">>, <<"x">>, <<"m">>, "0", "A", 10, 30),
          Frame(<<"b">>, <<"y">>, <<"n">>, "0", "B", 20, 20) >>,
       << Frame(<<"a", "b">>, <<"x">>, <<"m">>, "1", "A", 30, 40) >> >>

ProfileGroups == {ProfileGroupA}

Loading == [type |-> "loading", data |-> <<>>]

Resolved(profiles) == [type |-> "resolved", data |-> profiles]

\* collectProfileFrames: the frames of one profile
collectProfileFrames(profile) == profile

RECURSIVE FlatMap(_)
FlatMap(profiles) ==
    IF profiles = <<>> THEN <<>>
    ELSE collectProfileFrames(Head(profiles)) \o FlatMap(Tail(profiles))

----------------------------------------------------------------------------
(* quantile and the aggregate columns.  q is given in hundredths and the   *)
(* result is in hundredths of the unit of the data, so that the linear     *)
(* interpolation stays in the integers.                                    *)

RECURSIVE Insert(_, _)
Insert(x, sorted) ==
    IF sorted = <<>> THEN <<x>>
    ELSE IF x <= Head(sorted) THEN <<x>> \o sorted
    ELSE <<Head(sorted)>> \o Insert(x, Tail(sorted))

RECURSIVE SortAscending(_)
SortAscending(arr) ==
    IF arr = <<>> THEN <<>> ELSE Insert(Head(arr), SortAscending(Tail(arr)))

\* the value undefined, as the result of a computation
UndefinedValue == [isNaN |-> FALSE, isUndefined |-> TRUE]

\* an array read that gives 0 outside the array
ElementOrZero(sorted, index) ==
    IF index + 1 \in 1..Len(sorted) THEN Number(100 * sorted[index + 1])
    ELSE Number(0)

\* sorted[index] with a zero-based index: undefined outside the array.  The
\* elements are scaled to hundredths.
Element(sorted, index) ==
    IF index + 1 \in 1..Len(sorted) THEN Number(100 * sorted[index + 1])
    ELSE UndefinedValue

\* position % 1 of a position in hundredths: the sign of the dividend
Remainder(position) ==
    IF position >= 0 THEN position % 100 ELSE 0 - ((0 - position) % 100)

\* a * (1 - frac) + b * frac, NaN when a or b is undefined
Interpolate(a, b, frac) ==
    IF a = UndefinedValue \/ b = UndefinedValue THEN NaN
    ELSE Number((a.value * (100 - frac) + b.value * frac) \div 100)

\* a quantile over the array as given, without the sort
quantileUnsorted(arr, q) ==
    LET sorted   == arr
        position == q * (Len(sorted) - 1)
        int      == position \div 100
        frac     == Remainder(position)
    IN  IF position = 100 * int THEN Element(sorted, int)
        ELSE Interpolate(Element(sorted, int), Element(sorted, int + 1), frac)

\* a quantile that takes the lower neighbour instead of interpolating
quantileLower(arr, q) ==
    LET sorted   == SortAscending(arr)
        position == q * (Len(sorted) - 1)
        int      == position \div 100
    IN  IF position = 100 * int THEN Element(sorted, int)
        ELSE Interpolate(Element(sorted, int), Element(sorted, int + 1), 0)

quantile(arr, q) ==
    LET sorted   == SortAscending(arr)
        position == q * (Len(sorted) - 1)          \* in hundredths
        int      == position \div 100              \* Math.floor
        frac     == Remainder(position)            \* in hundredths
    IN  IF position = 100 * int THEN Element(sorted, int)
        ELSE Interpolate(Element(sorted, int), Element(sorted, int + 1), frac)

\* a value as a cell of a row: a number is kept as the integer
CellOf(v) == IF v = NaN \/ v = UndefinedValue THEN v ELSE v.value

SelfWeights(rows) == [i \in 1..Len(rows) |-> rows[i]["self weight"]]

p75AggregateColumn == [key |-> "p75", q |-> 75]

p95AggregateColumn == [key |-> "p95", q |-> 95]

countAggregateColumn == [key |-> "count", q |-> 0]

Compute(column, rows) ==
    IF column.key = "count" THEN Len(rows)
    ELSE CellOf(quantile(SelfWeights(rows), column.q))

\* aggregate(data, keys, columns): one row per distinct key tuple, in the
\* order in which the tuples first occur
KeyOf(row, keys) == [k \in keys |-> row[k]]

RECURSIVE DistinctKeys(_, _, _)
DistinctKeys(data, keys, seen) ==
    IF data = <<>> THEN <<>>
    ELSE LET k == KeyOf(Head(data), keys)
         IN  IF k \in seen THEN DistinctKeys(Tail(data), keys, seen)
             ELSE <<k>> \o DistinctKeys(Tail(data), keys, seen \cup {k})

aggregate(data, keys, columns) ==
    LET groups == DistinctKeys(data, keys, {})
        Group(k) == SelectSeq(data, LAMBDA row : KeyOf(row, keys) = k)
        names == {c.key : c \in columns}
    IN  [i \in 1..Len(groups) |->
            [c \in keys \cup names |->
                IF c \in keys THEN groups[i][c]
                ELSE Compute(CHOOSE col \in columns : col.key = c,
                             Group(groups[i]))]]

----------------------------------------------------------------------------
(* The views *)

MaxOccurrenceRows == 500

AggregateColumns == {p75AggregateColumn, p95AggregateColumn, countAggregateColumn}

GROUP_BY_OPTIONS ==
    [occurrence |->
        [value |-> "occurrence",
         groupBy |-> {},
         search |-> "symbol",
         sortableColumns |-> {"self weight", "total weight"},
         defaultSort |-> [key |-> "self weight", order |-> "desc"]],
     symbol |->
        [value |-> "symbol",
         groupBy |-> {"symbol", "type", "image"},
         search |-> "symbol",
         sortableColumns |-> {"p75", "p95", "count"},
         defaultSort |-> [key |-> "p75", order |-> "desc"]],
     package |->
        [value |-> "package",
         groupBy |-> {"type", "image"},
         search |-> "image",
         sortableColumns |-> {"p75", "p95", "count"},
         defaultSort |-> [key |-> "p75", order |-> "desc"]],
     file |->
        [value |-> "file",
         groupBy |-> {"type", "image", "file"},
         search |-> "file",
         sortableColumns |-> {"p75", "p95", "count"},
         defaultSort |-> [key |-> "p75", order |-> "desc"]]]

ViewNames == DOMAIN GROUP_BY_OPTIONS

\* names every JavaScript object inherits from Object.prototype
ObjectPrototypeKeys == {"constructor", "toString"}

\* what the property read GROUP_BY_OPTIONS[key] gives
PropertyOf(key) ==
    IF key \in ViewNames THEN GROUP_BY_OPTIONS[key]
    ELSE IF key \in ObjectPrototypeKeys
         THEN [value |-> "Object.prototype", groupBy |-> {}, search |-> "",
               sortableColumns |-> {},
               defaultSort |-> [key |-> "", order |-> ""]]
         ELSE [value |-> "undefined", groupBy |-> {}, search |-> "",
               sortableColumns |-> {},
               defaultSort |-> [key |-> "", order |-> ""]]

\* GROUP_BY_OPTIONS[groupByViewKey] ?? GROUP_BY_OPTIONS.occurrence
GroupByViewOf(key) ==
    IF PropertyOf(key).value = "undefined" THEN GROUP_BY_OPTIONS.occurrence
    ELSE PropertyOf(key)

\* a member of Object.prototype has no transform: calling it throws
RenderThrows(key) == GroupByViewOf(key).value \notin ViewNames

\* a transform of the occurrence view that keeps every row
TransformUncapped(view, data) ==
    IF view.value = "occurrence" THEN data
    ELSE aggregate(data, view.groupBy, AggregateColumns)

Transform(view, data) ==
    IF view.value = "occurrence" THEN Slice(data, 0, MaxOccurrenceRows)
    ELSE aggregate(data, view.groupBy, AggregateColumns)

\* the body of the useMemo of lines 55-60
ComputeAllData(st, key) ==
    Transform(GroupByViewOf(key),
              IF st.type = "resolved" THEN FlatMap(st.data) ELSE <<>>)

ProfileStates == {Loading} \cup {Resolved(profiles) : profiles \in ProfileGroups}

\* the row sets of the renders that do not throw, computed once
AllDataMemo ==
    [render \in ProfileStates \X (ViewNames \cup {"bogus"}) |->
        ComputeAllData(render[1], render[2])] @@ <<>>

AllDataOf(st, key) == AllDataMemo[<<st, key>>]

----------------------------------------------------------------------------
(* The hooks of ProfileDetailsTable *)

\* useFuseSearch(data, {keys}).search: every row for the empty string, else
\* the rows whose searched field matches, in the order of the data
FuseSearch(data, key, searchString) ==
    IF searchString = <<>> THEN data
    ELSE SelectSeq(data, LAMBDA row : IsSubstring(searchString, row[key]))

\* the search function of one render: it holds the index built over the row
\* set of the profile state and view of that render
SearchOf(index, searchString) ==
    FuseSearch(AllDataOf(index.state, index.key),
               GroupByViewOf(index.key).search, searchString)

\* useColumnFilters(data, ...).columnFilters[column].values
ColumnFilterValues(data, column) == {data[i][column] : i \in 1..Len(data)}

FilterColumns == {"type", "image"}

NoFilters == [c \in FilterColumns |-> {}]

\* a column's selection is unset ({}) or holds one array of values ({sel})
Selected(flt, column) == UNION flt[column]

\* useColumnFilters(...).filterPredicate
FilterPredicate(flt, row) ==
    LET Include(column) ==
            IF flt[column] = {} THEN TRUE
            ELSE LET filterValues == CHOOSE sel \in flt[column] : TRUE
                 IN  filterValues = {} \/ row[column] \in filterValues
    IN  Include("type") /\ Include("image")

\* columnFilters[column].onChange
OnFilterChange(flt, column, values) ==
    [flt EXCEPT ![column] = IF values = {} THEN {} ELSE {values}]

\* useSortableColumns(...).currentSort
CurrentSortOf(view, param) ==
    LET isDesc == param # <<>> /\ Head(param) = "-"
        key    == IF isDesc THEN Tail(param) ELSE param
    IN  IF Len(key) # 1 \/ key[1] \notin view.sortableColumns
        THEN view.defaultSort
        ELSE [key |-> key[1], order |-> IF isDesc THEN "desc" ELSE "asc"]

\* useSortableColumns(...).generateSortLink(column): the new functionsSort
SortLinkOf(sort, column) ==
    LET direction == IF sort.key # column THEN "desc"
                     ELSE IF sort.order = "desc" THEN "asc" ELSE "desc"
    IN  (IF direction = "desc" THEN <<"-">> ELSE <<>>) \o <<column>>

\* useSortableColumns(...).sortCompareFn(a, b) <= 0
SortsBefore(sort, a, b) ==
    IF sort.order = "asc" THEN a[sort.key] <= b[sort.key]
    ELSE b[sort.key] <= a[sort.key]

RECURSIVE InsertRow(_, _, _)
InsertRow(sort, row, sorted) ==
    IF sorted = <<>> THEN <<row>>
    ELSE IF SortsBefore(sort, row, Head(sorted)) THEN <<row>> \o sorted
    ELSE <<Head(sorted)>> \o InsertRow(sort, row, Tail(sorted))

RECURSIVE ArraySort(_, _)
\* Array.prototype.sort(sortCompareFn): a stable sort
ArraySort(rows, sort) ==
    IF rows = <<>> THEN <<>>
    ELSE InsertRow(sort, Head(rows), ArraySort(Tail(rows), sort))

----------------------------------------------------------------------------
(* One render of ProfileDetailsTable *)

RESULTS_PER_PAGE == 50

groupByView == GroupByViewOf(groupByViewKey)

CursorOf(param) ==
    IF ParseInt(param).isNaN THEN 0 ELSE ParseInt(param).value

cursor == CursorOf(paginationCursor)

allData == IF crashed THEN <<>> ELSE AllDataOf(state, groupByViewKey)

columnFiltersDataSearched == filteredDataBySearch

\* the row set the facet values are taken from (line 84)
columnFiltersData == allData

columnFilters == [c \in FilterColumns |-> ColumnFilterValues(columnFiltersData, c)]

\* triggerLabel of the facet selectors: 'All' when nothing is selected or as
\* many values are selected as the column has, else the selected values
triggerLabel(column) ==
    IF \/ filters[column] = {}
       \/ Cardinality(Selected(filters, column)) =
             Cardinality(columnFilters[column])
    THEN "All"
    ELSE "undefined"

currentSort == CurrentSortOf(groupByView, functionsSort)

filteredDataUnfiltered == filteredDataBySearch

filteredData ==
    SelectSeq(filteredDataBySearch, LAMBDA row : FilterPredicate(filters, row))

sortedData == IF crashed THEN <<>> ELSE ArraySort(filteredData, currentSort)

PageOf(sorted, param) ==
    Slice(sorted, CursorOf(param), CursorOf(param) + RESULTS_PER_PAGE)

data == PageOf(sortedData, paginationCursor)

----------------------------------------------------------------------------
(* Inputs of the details table *)

Queries == {<<>>, <<"a">>, <<"b">>}

DetailViewInputs == ViewNames \cup {"bogus"} \cup ObjectPrototypeKeys

CursorInputs == {<<>>, <<"5", "0">>}

TypeFilterA == [NoFilters EXCEPT !["type"] = {{"A"}}]

\* a selection persisted from another profile: as many values as the rows
\* of this one have, one of them a value no row of this one has
TypeFilterAC == [NoFilters EXCEPT !["type"] = {{"A", "C"}}]

FilterInputs ==
    {NoFilters, TypeFilterA, TypeFilterAC, [NoFilters EXCEPT !["type"] = {{"C"}}]}

SortInputs == {<<>>, <<"p95">>}

----------------------------------------------------------------------------
(* The details table *)

Index == [state |-> state, key |-> groupByViewKey]

\* a timer of a debounced function that a later render replaced keeps the
\* search function it was created with
Timer(query, index) ==
    [query |-> query, index |-> index, current |-> TRUE, superseded |-> FALSE]

Applied(by, superseded) == [by |-> by, superseded |-> superseded]

\* the first render, with the persisted parameters of the location
DetailsInit(filterInputs, sortInputs) ==
    /\ state = Loading
    /\ groupByViewKey \in DetailViewInputs
    /\ searchQuery \in Queries
    /\ paginationCursor \in CursorInputs
    /\ filters \in filterInputs
    /\ functionsSort \in sortInputs
    /\ timers = <<>>
    /\ crashed = RenderThrows(groupByViewKey)
    /\ filteredDataBySearch =
          IF RenderThrows(groupByViewKey) THEN <<>>
          ELSE SearchOf([state |-> Loading, key |-> groupByViewKey], searchQuery)
    /\ lastApplied = Applied("useState", FALSE)

\* useMemo(() => debounce(...), [search]): a new search function gives a new
\* debounced function; the timers of the old one stay armed
Recreated(pending) ==
    [i \in 1..Len(pending) |-> [pending[i] EXCEPT !.current = FALSE]]

\* the render after the row set changed, and its effect (lines 111-116)
RowSetChanged(newState, newKey, query) ==
    /\ timers' = Recreated(timers)
    /\ filteredDataBySearch' = SearchOf([state |-> newState, key |-> newKey], query)
    /\ lastApplied' = Applied("effect", FALSE)

\* the profile group provider resolves a profile
Resolve(profiles) ==
    /\ ~crashed
    /\ UNCHANGED <<sortParam, sortRequest, sortedLen, restVars>>
    /\ state # Resolved(profiles)
    /\ state' = Resolved(profiles)
    /\ RowSetChanged(Resolved(profiles), groupByViewKey, searchQuery)
    /\ UNCHANGED <<groupByViewKey, searchQuery, paginationCursor, filters,
                   functionsSort, crashed>>

SelectViewKeepsQuery(value) ==
    /\ ~crashed
    /\ UNCHANGED <<sortParam, sortRequest, sortedLen, restVars>>
    /\ paginationCursor' = Undefined
    /\ groupByViewKey' = value
    /\ IF GroupByViewOf(value) # groupByView
       THEN RowSetChanged(state, value, searchQuery)
       ELSE UNCHANGED <<timers, filteredDataBySearch, lastApplied>>
    /\ UNCHANGED <<state, searchQuery, filters, functionsSort, crashed>>

\* onChange of the view selector
SelectView(value) ==
    /\ ~crashed
    /\ UNCHANGED <<sortParam, sortRequest, sortedLen, restVars>>
    /\ searchQuery' = <<>>
    /\ paginationCursor' = Undefined
    /\ groupByViewKey' = value
    /\ IF GroupByViewOf(value) # groupByView
       THEN RowSetChanged(state, value, <<>>)
       ELSE UNCHANGED <<timers, filteredDataBySearch, lastApplied>>
    /\ UNCHANGED <<state, filters, functionsSort, crashed>>

\* debounce: a call re-arms the timer of the debounced function it is made on
Debounced(pending, query, index) ==
    LET others == SelectSeq(pending, LAMBDA t : ~t.current)
    IN  [i \in 1..Len(others) |-> [others[i] EXCEPT !.superseded = TRUE]]
        \o <<Timer(query, index)>>

\* a search handler that leaves the cursor where it is
handleSearchKeepsCursor(searchString) ==
    /\ ~crashed
    /\ UNCHANGED <<sortParam, sortRequest, sortedLen, restVars>>
    /\ Len(Debounced(timers, searchString, Index)) <= MaxPending
    /\ searchQuery' = searchString
    /\ timers' = Debounced(timers, searchString, Index)
    /\ UNCHANGED <<state, groupByViewKey, paginationCursor,
                   filteredDataBySearch, filters, functionsSort, lastApplied,
                   crashed>>

handleSearch(searchString) ==
    /\ ~crashed
    /\ UNCHANGED <<sortParam, sortRequest, sortedLen, restVars>>
    /\ Len(Debounced(timers, searchString, Index)) <= MaxPending
    /\ searchQuery' = searchString
    /\ paginationCursor' = Undefined
    /\ timers' = Debounced(timers, searchString, Index)
    /\ UNCHANGED <<state, groupByViewKey, filteredDataBySearch, filters,
                   functionsSort, lastApplied, crashed>>

\* the earliest armed timer expires
DebounceFire ==
    /\ ~crashed
    /\ UNCHANGED <<sortParam, sortRequest, sortedLen, restVars>>
    /\ timers # <<>>
    /\ filteredDataBySearch' = SearchOf(Head(timers).index, Head(timers).query)
    /\ lastApplied' = Applied("debounce", Head(timers).superseded)
    /\ timers' = Tail(timers)
    /\ UNCHANGED <<state, groupByViewKey, searchQuery, paginationCursor,
                   filters, functionsSort, crashed>>

\* onChange of a column's facet selector
FilterChange(column, values) ==
    /\ ~crashed
    /\ UNCHANGED <<sortParam, sortRequest, sortedLen, restVars>>
    /\ filters' = OnFilterChange(filters, column, values)
    /\ UNCHANGED <<state, groupByViewKey, searchQuery, paginationCursor,
                   filteredDataBySearch, functionsSort, timers, lastApplied,
                   crashed>>

\* a sort link of a column head is followed
SortLink(column) ==
    /\ ~crashed
    /\ UNCHANGED <<sortParam, sortRequest, sortedLen, restVars>>
    /\ functionsSort' = SortLinkOf(currentSort, column)
    /\ UNCHANGED <<state, groupByViewKey, searchQuery, paginationCursor,
                   filteredDataBySearch, filters, timers, lastApplied, crashed>>

SearchNext ==
    \/ \E profiles \in ProfileGroups : Resolve(profiles)
    \/ \E value \in ViewNames : SelectView(value)
    \/ \E searchString \in Queries : handleSearch(searchString)
    \/ DebounceFire

ColumnsNext ==
    \/ \E profiles \in ProfileGroups : Resolve(profiles)
    \/ \E value \in ViewNames : SelectView(value)
    \/ \E column \in FilterColumns :
          \E values \in SUBSET columnFilters[column] : FilterChange(column, values)
    \/ \E column \in groupByView.sortableColumns : SortLink(column)

OthersIdle ==
    sortParam = <<>> /\ sortRequest = <<>> /\ sortedLen = 0 /\ RestIdle

Init == DetailsInit({NoFilters, TypeFilterA}, {<<>>}) /\ OthersIdle

\* the search side of the details table: data changes, view switches,
\* search input and the debounce timers
Next == SearchNext

Spec == Init /\ [][Next]_vars

\* the column side of the details table: data changes, view switches,
\* facet selections and sort links
NextColumns == ColumnsNext

InitColumns == DetailsInit(FilterInputs, SortInputs) /\ OthersIdle

SpecColumns == InitColumns /\ [][NextColumns]_vars

----------------------------------------------------------------------------
(* The transactions table: the sort parameter is the string props.sort, a  *)
(* sequence of a leading "-" (or several) and the column name              *)

SORTABLE_COLUMNS ==
    {"project", "transaction", "count()", "p50()", "p75()", "p90()", "p95()",
     "p99()", "last_seen()"}

SortParamInputs ==
    {<<>>, <<"-", "count()">>, <<"count()">>, <<"p50()">>, <<"foo">>,
     <<"-", "foo">>, <<"-", "-", "p50()">>}

\* decodeScalar(value, fallback): the fallback for an absent or empty value
decodeScalar(value, fallback) == IF value = <<>> THEN fallback ELSE value

\* the column of a sort parameter once a leading "-" is cut off
StrippedColumn(param) ==
    LET column == decodeScalar(param, <<"-", "count()">>)
    IN  IF column # <<>> /\ Head(column) = "-" THEN Tail(column) ELSE column

IsSortable(column) == Len(column) = 1 /\ column[1] \in SORTABLE_COLUMNS

\* the useMemo of lines 35-52
TransactionsSort(param) ==
    LET decoded == decodeScalar(param, <<"-", "count()">>)
        startsWithDash == decoded # <<>> /\ Head(decoded) = "-"
        column == IF startsWithDash THEN Tail(decoded) ELSE decoded
        order == IF startsWithDash THEN "desc" ELSE "asc"
    IN  [key |-> IF IsSortable(column) THEN column[1] ELSE "count()",
         order |-> order]

sort == TransactionsSort(sortParam)

generateSortLinkAlwaysDesc(column) == <<"-", column>>

\* generateSortLink(column)(): the sort parameter of the link
generateSortLink(column) ==
    LET dir == IF column = sort.key /\ sort.order = "desc" THEN "asc" ELSE "desc"
    IN  (IF dir = "desc" THEN <<"-">> ELSE <<>>) \o <<column>>

\* the link of a sortable column head is followed
FollowSortLink(column) ==
    /\ sortParam' = generateSortLink(column)
    /\ sortRequest' = <<[column |-> column, before |-> sort]>>
    /\ UNCHANGED <<detailsVars, sortedLen, restVars>>

DetailsIdle ==
    /\ state = Loading
    /\ groupByViewKey = "occurrence"
    /\ searchQuery = <<>>
    /\ filteredDataBySearch = <<>>
    /\ filters = NoFilters
    /\ functionsSort = <<>>
    /\ timers = <<>>
    /\ lastApplied = Applied("useState", FALSE)
    /\ crashed = FALSE

InitTransactions ==
    /\ sortParam \in SortParamInputs
    /\ sortRequest = <<>>
    /\ DetailsIdle /\ paginationCursor = <<>> /\ sortedLen = 0 /\ RestIdle

NextTransactions == \E column \in SORTABLE_COLUMNS : FollowSortLink(column)

SpecTransactions == InitTransactions /\ [][NextTransactions]_vars

----------------------------------------------------------------------------
(* The pager: the page slice of a sorted row sequence of any length *)

PagerCursorInputs ==
    {<<>>, Undefined, <<"a", "b">>, <<"0">>, <<"5", "0">>, <<"7", "5">>,
     <<"1", "0", "0">>, <<"2", "0", "0">>, <<"-", "5", "0">>, <<"5", "0", "x">>}

RowsOf(n) == [i \in 1..n |-> i]

\* a column filter narrows the rows; the cursor keeps its value
Narrow(n) ==
    /\ n < sortedLen
    /\ sortedLen' = n
    /\ UNCHANGED <<detailsVars, sortParam, sortRequest, restVars>>

\* a location with another cursor parameter is opened
OpenCursor(param) ==
    /\ paginationCursor' = param
    /\ UNCHANGED <<state, groupByViewKey, searchQuery, filteredDataBySearch,
                   filters, functionsSort, timers, lastApplied, crashed,
                   sortParam, sortRequest, sortedLen, restVars>>

InitPager ==
    /\ sortedLen \in 0..MaxRows
    /\ paginationCursor \in PagerCursorInputs
    /\ DetailsIdle /\ sortParam = <<>> /\ sortRequest = <<>> /\ RestIdle

NextPager ==
    \/ \E n \in 0..MaxRows : Narrow(n)
    \/ \E param \in PagerCursorInputs : OpenCursor(param)

SpecPager == InitPager /\ [][NextPager]_vars

pagerData == PageOf(RowsOf(sortedLen), paginationCursor)

----------------------------------------------------------------------------
(* The occurrence view over a profile of any number of frames.  A frame is *)
(* named by its position in the collected sequence.                        *)

\* a profile group with n frames resolves
ResolveFrames(n) ==
    /\ frameCount' = n
    /\ UNCHANGED <<detailsVars, sortParam, sortRequest, sortedLen, pass,
                   aggregateVars>>

InitFrames ==
    /\ frameCount \in 0..MaxFrames
    /\ DetailsIdle /\ paginationCursor = <<>>
    /\ sortParam = <<>> /\ sortRequest = <<>> /\ sortedLen = 0
    /\ PassIdle /\ AggregateIdle

NextFrames == \E n \in 0..MaxFrames : ResolveFrames(n)

SpecFrames == InitFrames /\ [][NextFrames]_vars

\* allData of the occurrence view for the collected frames
occurrenceRows == Transform(GROUP_BY_OPTIONS.occurrence, RowsOf(frameCount))

----------------------------------------------------------------------------
(* The aggregate columns over one group of frames.  The group is given by  *)
(* the self weights of its frames, in the order of the rows.               *)

SelfWeightInputs == {10, 20, 30, 40}

QuantileInputs == {0, 25, 50, 75, 95, 99, 100}

SampleInputs == UNION {[1..n -> SelfWeightInputs] : n \in 0..MaxGroup}

\* the rows handed to compute
GroupRows(weights) == [i \in 1..Len(weights) |-> ("self weight" :> weights[i])]

ColumnValues(weights) ==
    [key \in {c.key : c \in AggregateColumns} |->
        Compute(CHOOSE c \in AggregateColumns : c.key = key, GroupRows(weights))]

\* the columns of the group are computed, and quantile at the given level
ComputeColumns ==
    /\ estimate' = [done |-> TRUE, rows |-> sample,
                    quantile |-> quantile(sample, level),
                    columns |-> ColumnValues(sample)]
    /\ UNCHANGED <<detailsVars, sortParam, sortRequest, sortedLen, frameCount,
                   pass, sample, level>>

\* the same frames are collected in another order
Reorder(i, j) ==
    /\ sample[i] # sample[j]
    /\ sample' = [sample EXCEPT ![i] = sample[j], ![j] = sample[i]]
    /\ UNCHANGED <<detailsVars, sortParam, sortRequest, sortedLen, frameCount,
                   pass, level, estimate>>

InitAggregate ==
    /\ sample \in SampleInputs
    /\ level \in QuantileInputs
    /\ estimate = NoEstimate
    /\ DetailsIdle /\ paginationCursor = <<>>
    /\ sortParam = <<>> /\ sortRequest = <<>> /\ sortedLen = 0
    /\ FramesIdle /\ PassIdle

NextAggregate ==
    \/ ComputeColumns
    \/ \E i, j \in 1..Len(sample) : Reorder(i, j)

SpecAggregate == InitAggregate /\ [][NextAggregate]_vars

----------------------------------------------------------------------------
(* One render pass over a resolved profile, stage by stage.  pass holds    *)
(* the arrays the names filteredData, sortedData and data are bound to;    *)
(* received, searched and all record what the stages were handed.          *)

PassOf(stage, filtered, received, sorted, page) ==
    [stage |-> stage, filteredData |-> filtered, received |-> received,
     sortedData |-> sorted, data |-> page,
     searched |-> filteredDataBySearch, all |-> allData]

\* lines 118-121: filter gives a new array
FilterStage ==
    /\ pass.stage = "idle"
    /\ pass' = PassOf("filtered", filteredData, <<>>, <<>>, <<>>)
    /\ UNCHANGED <<detailsVars, sortParam, sortRequest, sortedLen, frameCount,
                   aggregateVars>>

\* lines 123-126: Array.prototype.sort orders the array it is called on and
\* returns that array
SortStage ==
    /\ pass.stage = "filtered"
    /\ LET sorted == ArraySort(pass.filteredData, currentSort)
       IN  pass' = [pass EXCEPT !.stage = "sorted",
                                !.received = pass.filteredData,
                                !.filteredData = sorted,
                                !.sortedData = sorted]
    /\ UNCHANGED <<detailsVars, sortParam, sortRequest, sortedLen, frameCount,
                   aggregateVars>>

\* line 130
SliceStage ==
    /\ pass.stage = "sorted"
    /\ pass' = [pass EXCEPT !.stage = "sliced",
                            !.data = PageOf(pass.sortedData, paginationCursor)]
    /\ UNCHANGED <<detailsVars, sortParam, sortRequest, sortedLen, frameCount,
                   aggregateVars>>

\* a sort link is followed: filteredData keeps its memoised array and the
\* sort stage runs again on it
SortAgain(column) ==
    /\ pass.stage = "sliced"
    /\ functionsSort' = SortLinkOf(currentSort, column)
    /\ pass' = [pass EXCEPT !.stage = "filtered"]
    /\ UNCHANGED <<state, groupByViewKey, searchQuery, paginationCursor,
                   filteredDataBySearch, filters, timers, lastApplied, crashed>>
    /\ UNCHANGED <<sortParam, sortRequest, sortedLen, frameCount,
                   aggregateVars>>

InitPass ==
    /\ \E profiles \in ProfileGroups : state = Resolved(profiles)
    /\ groupByViewKey \in ViewNames
    /\ searchQuery \in Queries
    /\ paginationCursor \in CursorInputs
    /\ filters \in FilterInputs
    /\ functionsSort \in SortInputs
    /\ timers = <<>>
    /\ crashed = FALSE
    /\ filteredDataBySearch = SearchOf(Index, searchQuery)
    /\ lastApplied = Applied("useState", FALSE)
    /\ pass = NoPass
    /\ sortParam = <<>> /\ sortRequest = <<>> /\ sortedLen = 0
    /\ FramesIdle /\ AggregateIdle

NextPass ==
    \/ FilterStage
    \/ SortStage
    \/ SliceStage
    \/ \E column \in groupByView.sortableColumns : SortAgain(column)

SpecPass == InitPass /\ [][NextPass]_vars

----------------------------------------------------------------------------
(* Properties *)

\* C1: a search input that a newer input superseded is never applied to
\* filteredDataBySearch by its debounce timer; what a timer applies comes
\* from the latest input.
SupersededInputNeverApplied ==
    lastApplied.by = "debounce" => ~lastApplied.superseded

\* C2: once a change of the row set has been processed, the search-filtered
\* rows are rows of the current row set.
SearchedRowsAreCurrentRows ==
    Range(filteredDataBySearch) \subseteq Range(allData)

LastValidPage(rows) ==
    SubSeq(rows,
           (IF Len(rows) > RESULTS_PER_PAGE THEN Len(rows) - RESULTS_PER_PAGE ELSE 0) + 1,
           Len(rows))

\* C3: for a non-empty row sequence the page is never empty: a cursor beyond
\* the length gives the last valid page, a cursor inside the sequence gives
\* the rows [cursor, min(cursor + 50, length)).
PageIsClamped ==
    LET rows == RowsOf(sortedLen)
        c    == CursorOf(paginationCursor)
        last == IF c + RESULTS_PER_PAGE < sortedLen THEN c + RESULTS_PER_PAGE
                ELSE sortedLen
    IN  (sortedLen > 0 /\ c >= 0) =>
            /\ pagerData # <<>>
            /\ c >= sortedLen => pagerData = LastValidPage(rows)
            /\ c < sortedLen => pagerData = SubSeq(rows, c + 1, last)

\* C4: the effective cursor is a non-negative multiple of the page size for
\* every value of the cursor parameter, and 0 for an absent or unparsable one.
CursorIsPageBoundary ==
    /\ CursorOf(paginationCursor) >= 0
    /\ CursorOf(paginationCursor) % RESULTS_PER_PAGE = 0
    /\ LET unsigned == IF paginationCursor # <<>>
                           /\ Head(paginationCursor) \in {"-", "+"}
                        THEN Tail(paginationCursor) ELSE paginationCursor
       IN  (unsigned = <<>> \/ ~IsDigit(Head(unsigned)))
               => CursorOf(paginationCursor) = 0

\* the column a functionsSort parameter names
SortParamColumn(param) ==
    IF param # <<>> /\ Head(param) = "-" THEN Tail(param) ELSE param

\* C5 as stated: selecting a view empties the search query, clears every
\* column filter and makes the sort the default sort of the selected view.
ViewSwitchResetsAll ==
    [][\A value \in ViewNames :
          SelectView(value) =>
              /\ searchQuery' = <<>>
              /\ filters' = NoFilters
              /\ currentSort' = GROUP_BY_OPTIONS[value].defaultSort]_vars

\* C5 as amended: selecting a view empties the search query and leaves the
\* column filter selections and the sort parameter as they were; the sort
\* is the selected view's default sort exactly when the kept parameter
\* names no sortable column of that view.
ViewSwitchResetsSearchOnly ==
    [][\A value \in ViewNames :
          SelectView(value) =>
              /\ searchQuery' = <<>>
              /\ filters' = filters
              /\ functionsSort' = functionsSort
              /\ LET column == SortParamColumn(functionsSort)
                     view   == GROUP_BY_OPTIONS[value]
                 IN  IF Len(column) = 1 /\ column[1] \in view.sortableColumns
                     THEN /\ currentSort'.key = column[1]
                          /\ currentSort'.order =
                                IF Head(functionsSort) = "-" THEN "desc" ELSE "asc"
                     ELSE currentSort' = view.defaultSort]_vars

\* a view was selected (the cursor is unset) while a type selection and a
\* sort other than the view's default were active, and both are still there
ViewSwitchedWithFilterAndSort ==
    /\ paginationCursor = Undefined
    /\ state.type = "resolved"
    /\ groupByViewKey = "package"
    /\ searchQuery = <<>>
    /\ Selected(filters, "type") = {"A"}
    /\ currentSort = [key |-> "p95", order |-> "asc"]

\* C6: a view name that is not registered gives the occurrence view and the
\* render does not fail; a registered name gives its own view.
UnknownViewFallsBack ==
    /\ groupByViewKey \notin ViewNames =>
          groupByView = GROUP_BY_OPTIONS.occurrence /\ ~crashed
    /\ groupByViewKey \in ViewNames =>
          groupByView = GROUP_BY_OPTIONS[groupByViewKey]

\* C7: a sort parameter whose column is not sortable gives the default sort,
\* count() descending, with or without a leading "-".
UnsortableColumnGivesDefaultSort ==
    ~IsSortable(StrippedColumn(sortParam)) =>
        sort = [key |-> "count()", order |-> "desc"]

Flip(order) == IF order = "desc" THEN "asc" ELSE "desc"

\* C8: a sort request on the sorted column flips the direction, a request
\* on another column gives descending on that column.
SortRequestToggles ==
    sortRequest # <<>> =>
        LET request == sortRequest[1]
        IN  /\ sort.key = request.column
            /\ sort.order = IF request.before.key = request.column
                            THEN Flip(request.before.order)
                            ELSE "desc"

\* the sorted column was requested again while it was descending
SortedColumnRequestedAgain ==
    /\ sortRequest # <<>>
    /\ sortRequest[1].before = [key |-> "p50()", order |-> "desc"]
    /\ sortRequest[1].column = "p50()"
    /\ sort = [key |-> "p50()", order |-> "asc"]

\* C9: a searched row passes the column filter iff, for every filter column
\* with a non-empty selection, its value is in the selection.
ColumnFilterKeepsSelectedRows ==
    LET Passes(row) ==
            \A column \in FilterColumns :
                Selected(filters, column) # {} =>
                    row[column] \in Selected(filters, column)
    IN  /\ \A i \in 1..Len(filteredDataBySearch) :
              Passes(filteredDataBySearch[i])
                  <=> filteredDataBySearch[i] \in Range(filteredData)
        /\ Range(filteredData) \subseteq Range(filteredDataBySearch)
        /\ Len(filteredData) =
              Cardinality({i \in 1..Len(filteredDataBySearch) :
                              Passes(filteredDataBySearch[i])})

\* a type selection keeps some searched rows and removes others while the
\* image column has no selection
TypeSelectionRemovesRows ==
    /\ Selected(filters, "type") = {"A"}
    /\ Selected(filters, "image") = {}
    /\ filteredData # <<>>
    /\ Len(filteredData) < Len(filteredDataBySearch)

OnlyColumn(column) == [NoFilters EXCEPT ![column] = filters[column]]

SelectAllIsNoConstraint ==
    \A column \in FilterColumns :
        /\ (filters[column] # {}
              /\ columnFilters[column] \subseteq Selected(filters, column))
           => /\ \A i \in 1..Len(allData) :
                     FilterPredicate(OnlyColumn(column), allData[i])
              /\ triggerLabel(column) = "All"
        /\ triggerLabel(column) = "All"
           => \/ filters[column] = {}
              \/ columnFilters[column] \subseteq Selected(filters, column)
\* C12 as stated: the occurrence view has exactly one row for every collected
\* frame, whatever the number of frames
OccurrenceRowPerFrame ==
    /\ Len(occurrenceRows) = frameCount
    /\ Range(occurrenceRows) = 1..frameCount

\* C12: the occurrence view has one row for each of the first 500 collected
\* frames, in the order collected, and no row for a later frame
OccurrenceRowPerFrameOfFirst500 ==
    LET kept == IF frameCount < MaxOccurrenceRows THEN frameCount
                ELSE MaxOccurrenceRows
    IN  /\ Len(occurrenceRows) = kept
        /\ \A i \in 1..kept : occurrenceRows[i] = i

MoreFramesThanOccurrenceRows ==
    /\ frameCount > MaxOccurrenceRows
    /\ Len(occurrenceRows) = MaxOccurrenceRows
\* C13: quantile of a non-empty sequence is the linearly interpolated order
\* statistic at position q*(n-1) of the ascending order; it is the single
\* element for n = 1 and lies between the minimum and the maximum;
\* [10,20,30,40] gives p50 = 25, p75 = 32.5 and p99 = 39.7
OrderStatistic(arr, k) ==
    CHOOSE v \in Range(arr) :
        /\ Cardinality({i \in 1..Len(arr) : arr[i] < v}) < k
        /\ Cardinality({i \in 1..Len(arr) : arr[i] <= v}) >= k

InterpolatedOrderStatistic(arr, q) ==
    LET position == q * (Len(arr) - 1)
        below    == position \div 100
        weight   == position % 100
    IN  IF weight = 0 THEN 100 * OrderStatistic(arr, below + 1)
        ELSE OrderStatistic(arr, below + 1) * (100 - weight)
                + OrderStatistic(arr, below + 2) * weight

QuantileIsInterpolatedOrderStatistic ==
    (estimate.done /\ sample # <<>>) =>
        /\ estimate.quantile = Number(InterpolatedOrderStatistic(sample, level))
        /\ Len(sample) = 1 => estimate.quantile = Number(100 * sample[1])
        /\ \E lo, hi \in Range(sample) :
              /\ \A x \in Range(sample) : lo <= x /\ x <= hi
              /\ 100 * lo <= estimate.quantile.value
              /\ estimate.quantile.value <= 100 * hi
        /\ (Len(sample) = 4 /\ \A i \in 1..4 : sample[i] = 10 * i) =>
              /\ level = 50 => estimate.quantile = Number(2500)
              /\ level = 75 => estimate.quantile = Number(3250)
              /\ level = 99 => estimate.quantile = Number(3970)

QuantileInterpolated ==
    /\ estimate.done
    /\ sample = <<40, 10, 30, 20>>
    /\ level = 75
    /\ estimate.quantile = Number(3250)

\* C14: quantile of an empty sequence is undefined or NaN for every q in
\* [0,1], never 0 or another number
QuantileOfEmptyIsNoValue ==
    (estimate.done /\ sample = <<>>) =>
        estimate.quantile \in {UndefinedValue, NaN}

QuantileOfEmptyComputed ==
    /\ estimate.done
    /\ sample = <<>>
    /\ level = 75
    /\ estimate.quantile = NaN

\* C16: the aggregate columns of a group do not depend on the order of its
\* frames: what was computed stays what the columns give for every later
\* order of the same frames, and count is the number of frames
AggregatesAreOrderIndependent ==
    estimate.done =>
        /\ estimate.columns = ColumnValues(sample)
        /\ estimate.columns["count"] = Len(sample)

ReorderedAfterCompute ==
    /\ estimate.done
    /\ estimate.rows = <<10, 30, 40>>
    /\ sample = <<40, 10, 30>>
    /\ estimate.columns["p75"] = 3500
\* C15: no stage of a pass changes the row sequence it receives: after the
\* sort stage filteredData has the order it had before sorting, and
\* filteredDataBySearch and allData are what they were when the pass began
StagesDoNotMutate ==
    /\ pass.stage \in {"sorted", "sliced"} => pass.filteredData = pass.received
    /\ pass.stage # "idle" =>
          /\ filteredDataBySearch = pass.searched
          /\ allData = pass.all
\* C17: every search input and every view switch unsets the cursor, so that
\* the offset is 0, in the step that changes the query or the view, and a
\* search input leaves the view, the column selections and the sort alone
NarrowingInputsResetCursor ==
    [][/\ \A searchString \in Queries :
              handleSearch(searchString) =>
                  /\ searchQuery' = searchString
                  /\ paginationCursor' = Undefined
                  /\ cursor' = 0
                  /\ groupByView' = groupByView
                  /\ filters' = filters
                  /\ currentSort' = currentSort
       /\ \A value \in ViewNames :
              SelectView(value) =>
                  /\ groupByViewKey' = value
                  /\ paginationCursor' = Undefined
                  /\ cursor' = 0]_vars

\* a search input was made on a location that had a type selection: the
\* query is set, its timer is pending, the cursor is unset
SearchInputPending ==
    /\ searchQuery = <<"a">>
    /\ timers # <<>>
    /\ timers[Len(timers)].query = <<"a">>
    /\ filters = TypeFilterA
    /\ paginationCursor = Undefined
    /\ cursor = 0
====
